---- MODULE Spec2Model ----
(***************************************************************************)
(* A model of geopandas/geoplotting.py (map scenes and animations built    *)
(* from a GeoDataFrame) and geopandas/io/sql.py (PostGIS read and write).  *)
(*                                                                         *)
(* Units.  Longitudes and latitudes are integers counting HALF degrees, so *)
(* that centroids and bounding-box midpoints of the modelled shapes are    *)
(* exact.  Zoom levels are integers counting TENTHS, so 6.5 is 65.         *)
(*                                                                         *)
(* Optional values.  Python's None is the empty sequence and a supplied    *)
(* value v is <<v>>.  A call's outcome is [error, value]: error is "" and  *)
(* value is <<v>> when the call returned v, and error names the exception  *)
(* and value is <<>> when it raised.                                       *)
(***************************************************************************)
EXTENDS Integers, Sequences, FiniteSets, TLC

\* The longest feature set (and query result) explored.
MaxLen == 2

None == <<>>
Some(v) == <<v>>
Ok(v) == [error |-> "", value |-> <<v>>]
Fail(e) == [error |-> e, value |-> <<>>]

\* A missing attribute value (pandas NaN), distinct from every year.
NaN == 0 - 1

SeqsUpTo(S, n) == UNION {[1..k -> S] : k \in 0..n}
Range(s) == {s[i] : i \in 1..Len(s)}

SetMin(S) == CHOOSE m \in S : \A x \in S : m <= x
SetMax(S) == CHOOSE m \in S : \A x \in S : x <= m

(***************************************************************************)
(* str() of a non-negative integer: its decimal digits.                    *)
(***************************************************************************)
Digit(d) == CASE d = 0 -> "0" [] d = 1 -> "1" [] d = 2 -> "2" [] d = 3 -> "3"
              [] d = 4 -> "4" [] d = 5 -> "5" [] d = 6 -> "6" [] d = 7 -> "7"
              [] d = 8 -> "8" [] d = 9 -> "9"

RECURSIVE str(_)
str(n) == IF n < 10 THEN <<Digit(n)>> ELSE Append(str(n \div 10), Digit(n % 10))

(***************************************************************************)
(* Geometries: a Point, a two-vertex LineString, an axis-aligned           *)
(* rectangular Polygon.  For these shapes the geometric centroid is the    *)
(* midpoint of the shape's own bounding box.                               *)
(***************************************************************************)
Point(x, y) == [type |-> "Point", coords |-> <<<<x, y>>>>]
LineString(x1, y1, x2, y2) == [type |-> "LineString", coords |-> <<<<x1, y1>>, <<x2, y2>>>>]
Polygon(x1, y1, x2, y2) ==
    [type |-> "Polygon", coords |-> <<<<x1, y1>>, <<x2, y1>>, <<x2, y2>>, <<x1, y2>>>>]

Geoms == { Point(0, 0), Point(20, 20), Point(120, 6),
           LineString(0, 0, 14, 6), Polygon(0, 0, 40, 40) }
Years == {2, 10, NaN}
Names == {"a"}
Columns == {"year", "name"}

\* geometry.bounds: <<minx, miny, maxx, maxy>>
bounds(g) ==
    LET xs == {g.coords[i][1] : i \in 1..Len(g.coords)}
        ys == {g.coords[i][2] : i \in 1..Len(g.coords)}
    IN  <<SetMin(xs), SetMin(ys), SetMax(xs), SetMax(ys)>>

\* geometry.centroid
centroid(g) ==
    LET b == bounds(g) IN [x |-> (b[1] + b[3]) \div 2, y |-> (b[2] + b[4]) \div 2]

(***************************************************************************)
(* A GeoDataFrame: its attribute columns and its rows; a row carries its   *)
(* index label, its geometry and its attribute values.                     *)
(***************************************************************************)
Features == [geometry : Geoms, year : Years, name : Names]

GeoDataFrame(fs) ==
    [columns |-> Columns,
     rows |-> [i \in 1..Len(fs) |->
                 [index |-> i - 1, geometry |-> fs[i].geometry,
                  year |-> fs[i].year, name |-> fs[i].name]]]

FeatureSets == {GeoDataFrame(fs) : fs \in SeqsUpTo(Features, MaxLen)}

Cell(row, col) == IF col = "year" THEN row.year ELSE row.name

\* A column holding a missing value is a float column (NaN is a float).
is_float(gdf, col) == col = "year" /\ \E i \in 1..Len(gdf.rows) : gdf.rows[i].year = NaN

\* str() of a year: of an int, of a float, of NaN
str_year(v, float) ==
    IF v = NaN THEN <<"n", "a", "n">>
    ELSE IF float THEN str(v) \o <<".", "0">> ELSE str(v)

\* str() of one cell of a row
str_cell(gdf, row, col) ==
    IF col = "name" THEN <<row.name>> ELSE str_year(row.year, is_float(gdf, col))

RECURSIVE join(_, _)
join(sep, parts) ==
    IF Len(parts) = 0 THEN <<>>
    ELSE IF Len(parts) = 1 THEN parts[1]
    ELSE parts[1] \o <<sep>> \o join(sep, Tail(parts))

\* gdf.centroid.x, gdf.centroid.y
centroid_x(gdf) == [i \in 1..Len(gdf.rows) |-> centroid(gdf.rows[i].geometry).x]
centroid_y(gdf) == [i \in 1..Len(gdf.rows) |-> centroid(gdf.rows[i].geometry).y]

\* gdf.total_bounds, the Extent <<minx, miny, maxx, maxy>>: an error on an empty
\* frame, whose extent is undefined
total_bounds(gdf) ==
    IF Len(gdf.rows) = 0 THEN Fail("EmptyInputError")
    ELSE LET B == {bounds(gdf.rows[i].geometry) : i \in 1..Len(gdf.rows)}
         IN  Ok(<<SetMin({b[1] : b \in B}), SetMin({b[2] : b \in B}),
                  SetMax({b[3] : b \in B}), SetMax({b[4] : b \in B})>>)

\* math.ceil of a span given in half degrees, in whole degrees
ceil(half) == (half + 1) \div 2

(***************************************************************************)
(* get_auto_zoom: max() and min() of an empty sequence raise.              *)
(***************************************************************************)
\* A faulty variant: an empty frame gets the widest zoom instead of an error.
get_auto_zoom_default(gdf) ==
    IF Len(gdf.rows) = 0 THEN Ok(10)
    ELSE LET lats == Range(centroid_y(gdf))
             lons == Range(centroid_x(gdf))
             m    == IF SetMax(lats) - SetMin(lats) > SetMax(lons) - SetMin(lons)
                     THEN SetMax(lats) - SetMin(lats)
                     ELSE SetMax(lons) - SetMin(lons)
             span == 65 - ceil(m)
         IN  Ok(IF span < 10 THEN 10 ELSE span)

get_auto_zoom(gdf) ==
    IF Len(gdf.rows) = 0 THEN Fail("EmptyInputError")
    ELSE LET lats == Range(centroid_y(gdf))
             lons == Range(centroid_x(gdf))
             m    == IF SetMax(lats) - SetMin(lats) > SetMax(lons) - SetMin(lons)
                     THEN SetMax(lats) - SetMin(lats)
                     ELSE SetMax(lons) - SetMin(lons)
             span == 65 - ceil(m)
         IN  Ok(IF span < 10 THEN 10 ELSE span)

(***************************************************************************)
(* get_auto_center: the mean of the two longitudes and of the two          *)
(* latitudes of total_bounds.                                              *)
(***************************************************************************)
get_auto_center(gdf) ==
    LET tb == total_bounds(gdf)
    IN  IF tb.error # "" THEN Fail(tb.error)
        ELSE LET mean_lon == (tb.value[1][1] + tb.value[1][3]) \div 2
                 mean_lat == (tb.value[1][2] + tb.value[1][4]) \div 2
             IN  Ok([lon |-> mean_lon, lat |-> mean_lat])

(***************************************************************************)
(* gdf_to_plotly_layers (default_layer omitted): one layer per feature of  *)
(* the frame's GeoJSON, each wrapping that one feature.                    *)
(***************************************************************************)
to_json(gdf) ==
    [type |-> "FeatureCollection",
     features |-> [i \in 1..Len(gdf.rows) |->
                     [id |-> str(gdf.rows[i].index), type |-> "Feature",
                      properties |-> [c \in gdf.columns |-> Cell(gdf.rows[i], c)],
                      geometry |-> gdf.rows[i].geometry]]]

\* A faulty variant: one layer holding every feature in a single collection.
gdf_to_plotly_layers_merged(gdf, opacity, color) ==
    IF Len(gdf.rows) = 0 THEN <<>>
    ELSE << [sourcetype |-> "geojson", type |-> "fill", color |-> color,
             opacity |-> opacity, fill |-> [outlinecolor |-> "red"],
             source |-> to_json(gdf)] >>

gdf_to_plotly_layers(gdf, opacity, color) ==
    LET default_layer == [sourcetype |-> "geojson", type |-> "fill", color |-> color,
                          opacity |-> opacity, fill |-> [outlinecolor |-> "red"]]
        geojson_dict  == to_json(gdf)
    IN  [i \in 1..Len(geojson_dict.features) |->
           [sourcetype |-> default_layer.sourcetype, type |-> default_layer.type,
            color |-> default_layer.color, opacity |-> default_layer.opacity,
            fill |-> default_layer.fill,
            source |-> [features |-> <<geojson_dict.features[i]>>,
                        type |-> "FeatureCollection"]]]

\* A faulty variant: no filter, the points stay.
all_rows(gdf) == gdf

\* gdf.loc[gdf.geom_type != 'Point']: the rows keep their index labels
shape_rows(gdf) ==
    [columns |-> gdf.columns,
     rows |-> SelectSeq(gdf.rows, LAMBDA r : r.geometry.type # "Point")]

(***************************************************************************)
(* plot_markers_with_mapbox, lines 61-95: the figure of the static scene,  *)
(* or the exception raised on the way.  text is the list of hover columns  *)
(* (None and [] are both falsy), center and zoom are optional.             *)
(***************************************************************************)
hover_text(gdf, text) ==
    [i \in 1..Len(gdf.rows) |->
       join("_", [k \in 1..Len(text) |-> str_cell(gdf, gdf.rows[i], text[k])])]

build_fig(gdf, text, center, zoom) ==
    LET trace  == [lat |-> centroid_y(gdf), lon |-> centroid_x(gdf),
                   marker |-> [color |-> "darkblue", size |-> None],
                   mode |-> "markers",
                   text |-> IF Len(text) > 0 THEN Some(hover_text(gdf, text)) ELSE None,
                   hoverinfo |-> "text"]
        layers == gdf_to_plotly_layers(shape_rows(gdf), "0.5", "darkblue")
    IN  [data |-> <<trace>>,
         layout |-> [mapbox |-> [center |-> center, zoom |-> zoom, style |-> "basic",
                                 layers |-> layers],
                     sliders |-> <<>>, updatemenus |-> <<>>],
         frames |-> <<>>]

plot_scene(gdf, text, center, zoom) ==
    LET c == IF center = None THEN get_auto_center(gdf) ELSE Ok(center[1])
    IN  IF c.error # "" THEN Fail(c.error)
        ELSE LET z == IF zoom = None THEN get_auto_zoom(gdf) ELSE Ok(zoom[1])
             IN  IF z.error # "" THEN Fail(z.error)
                 ELSE IF ~(Range(text) \subseteq gdf.columns) THEN Fail("KeyError")
                 ELSE Ok(build_fig(gdf, text, c.value[1], z.value[1]))

(***************************************************************************)
(* df.groupby(by, as_index=False), iterated: one (key, values) pair per    *)
(* distinct non-missing key, in ascending key order (pandas' sort=True     *)
(* default drops the rows whose key is missing).  A key of a float column  *)
(* is a float.                                                             *)
(***************************************************************************)
RECURSIVE sorted(_)
sorted(S) == IF S = {} THEN <<>> ELSE <<SetMin(S)>> \o sorted(S \ {SetMin(S)})

\* A faulty variant: the distinct non-missing keys in order of first occurrence
\* (sort=False).
RECURSIVE unique(_)
unique(s) ==
    IF Len(s) = 0 THEN <<>>
    ELSE LET rest == unique(SelectSeq(Tail(s), LAMBDA v : v # Head(s)))
         IN  IF Head(s) = NaN THEN rest ELSE <<Head(s)>> \o rest

group_keys_unsorted(df) == unique([i \in 1..Len(df.rows) |-> df.rows[i].year])

group_keys(df) == sorted({df.rows[i].year : i \in 1..Len(df.rows)} \ {NaN})

groupby(df, by) ==
    LET keys == group_keys(df)
    IN  [k \in 1..Len(keys) |->
           [key |-> [v |-> keys[k], float |-> is_float(df, by)],
            values |-> [columns |-> df.columns,
                        rows |-> SelectSeq(df.rows, LAMBDA r : r.year = keys[k])]]]

\* str(key)
str_key(key) == str_year(key.v, key.float)

\* values.drop([by], 1)
drop(values, by) == [columns |-> values.columns \ {by}, rows |-> values.rows]

(***************************************************************************)
(* GeoDataFrame.iplot, the method animate() calls on each group: it is     *)
(* plot_markers_with_mapbox bound to the frame (animate_by omitted).       *)
(***************************************************************************)
iplot(values, zoom, center, text) == plot_scene(values, text, Some(center), Some(zoom))

\* A faulty variant: the step is labelled by the loop index, not by the key.
slider_step_by_index(key, ii) ==
    [args |-> <<<<str(ii)>>, [frame |-> [duration |-> 300], mode |-> "immediate",
                             transition |-> [duration |-> 300]]>>,
     label |-> str(ii), method |-> "animate"]

\* One slider step of animate()
slider_step(key, ii) ==
    [args |-> <<<<str_key(key)>>, [frame |-> [duration |-> 300], mode |-> "immediate",
                                  transition |-> [duration |-> 300]]>>,
     label |-> str_key(key), method |-> "animate"]

play_pause_menus ==
    << [buttons |-> <<[args |-> <<None, [fromcurrent |-> TRUE]>>,
                       label |-> "Play", method |-> "animate"]>>, type |-> "buttons"],
       [buttons |-> <<[args |-> <<<<None>>, [frame |-> [duration |-> 0, redraw |-> FALSE],
                                            mode |-> "immediate",
                                            transition |-> [duration |-> 0]]>>,
                       label |-> "Pause", method |-> "animate"]>>, type |-> "buttons"] >>

new_sliders(by) ==
    [currentvalue |-> [prefix |-> <<by, ": ">>, xanchor |-> "right"],
     transition |-> [duration |-> 300], steps |-> <<>>]

(***************************************************************************)
(* geopandas/io/sql.py.  A geometry is [cls, tag, srid]: a shapely object  *)
(* has cls "shapely", its geom_type as tag and its embedded SRID; a        *)
(* geoalchemy2 WKTElement has cls "WKTElement", the WKT tag of the shape   *)
(* and the SRID it was given.                                              *)
(***************************************************************************)
GeomTypes == {"Polygon", "MultiPolygon", "Point", "LineString", "MultiPoint",
              "GeometryCollection", "MultiLineString", "LinearRing"}

shapely(geom_type, srid) == [cls |-> "shapely", tag |-> geom_type, srid |-> srid]

\* A faulty variant: only the first geometry is looked at.
first_geom_type(geometry, t) == Len(geometry) > 0 /\ geometry[1].tag = t

\* all(gdf.geom_type == t)
all_geom_type(geometry, t) == \A i \in 1..Len(geometry) : geometry[i].tag = t

_geom_type_to_postgis(geometry) ==
    IF all_geom_type(geometry, "Polygon") THEN "POLYGON"
    ELSE IF all_geom_type(geometry, "MultiPolygon") THEN "MULTIPOLYGON"
    ELSE IF all_geom_type(geometry, "Point") THEN "POINT"
    ELSE IF all_geom_type(geometry, "LineString") THEN "LINESTRING"
    ELSE IF all_geom_type(geometry, "MultiPoint") THEN "MULTIPOINT"
    ELSE IF all_geom_type(geometry, "GeometryCollection") THEN "GEOMETRYCOLLECTION"
    ELSE IF all_geom_type(geometry, "MultiLineString") THEN "MULTILINESTRING"
    ELSE "GEOMETRY"

\* x.wkt begins with the shape's WKT tag
wkt(x) ==
    CASE x.tag = "Polygon" -> "POLYGON"
      [] x.tag = "MultiPolygon" -> "MULTIPOLYGON"
      [] x.tag = "Point" -> "POINT"
      [] x.tag = "LineString" -> "LINESTRING"
      [] x.tag = "MultiPoint" -> "MULTIPOINT"
      [] x.tag = "GeometryCollection" -> "GEOMETRYCOLLECTION"
      [] x.tag = "MultiLineString" -> "MULTILINESTRING"
      [] x.tag = "LinearRing" -> "LINEARRING"

WKTElement(data, srid) == [cls |-> "WKTElement", tag |-> data, srid |-> srid]

\* The SRID of a frame's crs: the EPSG code, or -1 for no crs.
NoSrid == 0 - 1
crs_to_srid(crs) == IF crs = None THEN NoSrid ELSE crs[1]

(***************************************************************************)
(* Frames live in a heap of objects, so that a copy and an alias differ:   *)
(* df.copy() allocates a new frame holding the same columns.               *)
(***************************************************************************)
CallerDf == 1
TempDf == 2

\* A faulty variant: no copy is made, temp_df is the caller's frame.
alias(h, ref) == [heap |-> h, ref |-> ref]

copy(h, ref) == [heap |-> [h EXCEPT ![TempDf] = h[ref]], ref |-> TempDf]

\* temp_df[temp_df.geometry.name] = values
setitem(h, ref, values) == [h EXCEPT ![ref].geometry = values]

(***************************************************************************)
(* DataFrame.to_sql(name, con, if_exists=..., dtype=...) on the table      *)
(* `name`: the table afterwards, or the error.  A table is None (absent)   *)
(* or <<[dtype, rows]>>.                                                   *)
(***************************************************************************)
to_sql(frame, table, if_exists, dtype) ==
    IF table = None \/ if_exists = "replace"
    THEN Ok(Some([dtype |-> dtype, rows |-> frame.geometry]))
    ELSE IF if_exists = "append"
    THEN Ok(Some([dtype |-> table[1].dtype, rows |-> table[1].rows \o frame.geometry]))
    ELSE Fail("TableExistsError")

(***************************************************************************)
(* write_postgis(df, name, con, if_exists=..., dtype=...): the heap and    *)
(* the table afterwards, and the outcome.                                  *)
(***************************************************************************)
write_postgis(h, df, table, if_exists, dtype) ==
    LET c        == copy(h, df)
        temp_df  == c.ref
        postgis_geom_type == _geom_type_to_postgis(c.heap[temp_df].geometry)
        srid     == crs_to_srid(c.heap[temp_df].crs)
        dtype1   == IF dtype = None
                    THEN [geometry_type |-> postgis_geom_type, srid |-> srid]
                    ELSE dtype[1]
        geom     == c.heap[temp_df].geometry
        h2       == setitem(c.heap, temp_df,
                            [i \in 1..Len(geom) |-> WKTElement(wkt(geom[i]), srid)])
        out      == to_sql(h2[temp_df], table, if_exists, dtype1)
    IN  [heap |-> h2,
         table |-> IF out.error = "" THEN out.value[1] ELSE table,
         outcome |-> IF out.error = "" THEN Ok("None") ELSE Fail(out.error)]

(***************************************************************************)
(* read_postgis(sql, con, geom_col, crs, index_col).  The query result is  *)
(* [columns, rows]; a row is [id, geom], geom the hex EWKB of a geometry,  *)
(* here <<"EWKB", geom_type, srid>>.                                       *)
(***************************************************************************)
\* shapely.wkb.loads
load_geom(x) == shapely(x[2], x[3])

\* pd.read_sql(..., index_col=...): the frame's index labels
read_sql_index(rows, index_col) ==
    IF index_col = None THEN [i \in 1..Len(rows) |-> i - 1]
    ELSE [i \in 1..Len(rows) |-> rows[i].id]

\* series[0] on an integer index: the element LABELLED 0
getitem0(index, values) ==
    LET at == {i \in 1..Len(index) : index[i] = 0}
    IN  IF at = {} THEN Fail("KeyError")
        ELSE IF Cardinality(at) > 1 THEN Fail("AttributeError")
        ELSE Ok(values[CHOOSE i \in at : TRUE])

\* the crs read_postgis settles on, given the SRID of the geometry it looked at
srid_to_crs(srid) == IF srid # 0 THEN Some(srid) ELSE None

read_postgis(q, geom_col, crs, index_col) ==
    IF geom_col \notin q.columns
    THEN [outcome |-> Fail("MissingColumnError"), decoded |-> 0, srid_read |-> <<>>]
    ELSE LET index == read_sql_index(q.rows, index_col)
             geoms == [i \in 1..Len(q.rows) |-> load_geom(q.rows[i].geom)]
             frame(c) == [crs |-> c, index |-> index, geometry |-> geoms]
         IN  IF crs = None /\ Len(geoms) > 0
             THEN LET g == getitem0(index, geoms)
                  IN  IF g.error # ""
                      THEN [outcome |-> Fail(g.error), decoded |-> Len(geoms),
                            srid_read |-> <<>>]
                      ELSE [outcome |-> Ok(frame(srid_to_crs(g.value[1].srid))),
                            decoded |-> Len(geoms), srid_read |-> <<g.value[1]>>]
             ELSE [outcome |-> Ok(frame(crs)), decoded |-> Len(geoms), srid_read |-> <<>>]

(***************************************************************************)
(* The state: one call on one feature set.                                 *)
(***************************************************************************)
VARIABLES
    gdf,        \* the caller's feature set
    call,       \* the call made on it: the operation and its arguments
    pc,         \* "idle", "loop" (inside animate's group loop) or "done"
    fig,        \* animate's fig: None or the figure
    frames,     \* animate's frames
    sliders,    \* animate's sliders
    grouped,    \* the groups animate's loop has still to visit
    ii,         \* animate's loop index
    camera,     \* animate's zoom and center, computed once
    by,         \* animate's grouping attribute
    kwargs,     \* animate's keyword arguments: the hover columns (text)
    nfigures,   \* how many figures (scenes) the call has built so far
    result,     \* the call's outcome once pc = "done"
    heap,       \* the frames write_postgis works on, by object
    df_before,  \* the caller's frame as it was before the call
    table,      \* the target table in the database: None or <<[dtype, rows]>>
    qresult,    \* what pd.read_sql returns to read_postgis
    decoded,    \* how many geometries read_postgis has decoded
    srid_read   \* the geometry whose SRID read_postgis read, if any

plot_vars == <<gdf, fig, frames, sliders, grouped, ii, camera, by, kwargs, nfigures>>
sql_vars == <<heap, df_before, table, qresult, decoded, srid_read>>
vars == <<call, pc, result, plot_vars, sql_vars>>

Texts == {<<>>, <<"name">>, <<"year">>, <<"year", "name">>}
Centers == {None, Some([lon |-> 10, lat |-> 10])}
Zooms == {None, Some(30)}
AnimateBys == {None, Some("year")}

NoCall == [op |-> "", args |-> <<>>]
NoResult == [error |-> "", value |-> <<>>]
NoCamera == [zoom |-> 0, center |-> [lon |-> 0, lat |-> 0]]

NoFrame == [crs |-> None, geometry |-> <<>>, name |-> <<>>]
NoQuery == [columns |-> {}, rows |-> <<>>]

\* No call made yet.
Idle ==
    /\ call = NoCall
    /\ pc = "idle"
    /\ result = NoResult

\* The plotting state before any call, but for the feature set.
PlotIdle ==
    /\ fig = None
    /\ frames = <<>>
    /\ sliders = new_sliders("")
    /\ grouped = <<>>
    /\ ii = 0
    /\ camera = NoCamera
    /\ by = ""
    /\ kwargs = [text |-> <<>>]
    /\ nfigures = 0

\* The SQL state before any call, but for the frame, the table and the query result.
SqlIdle ==
    /\ decoded = 0
    /\ srid_read = <<>>

Init ==
    /\ Idle
    /\ gdf \in FeatureSets
    /\ PlotIdle
    /\ SqlIdle
    /\ heap = [o \in {CallerDf, TempDf} |-> NoFrame]
    /\ df_before = NoFrame
    /\ table = None
    /\ qresult = NoQuery

\* The call ends: it returns or raises.
Finish(outcome) ==
    /\ pc' = "done"
    /\ result' = outcome

(***************************************************************************)
(* animate(), lines 107-140: the controls, the groups, and the zoom and    *)
(* center of the whole frame; then the loop starts.                        *)
(***************************************************************************)
animate_enter(df, by0, fig0, text) ==
    LET zoom == get_auto_zoom(df)
    IN  IF zoom.error # ""
        THEN /\ Finish(Fail(zoom.error))
             /\ UNCHANGED <<fig, frames, sliders, grouped, ii, camera, by, kwargs>>
        ELSE LET center == get_auto_center(df)
             IN IF center.error # ""
               THEN /\ Finish(Fail(center.error))
                    /\ UNCHANGED <<fig, frames, sliders, grouped, ii, camera, by, kwargs>>
               ELSE /\ pc' = "loop"
                    /\ fig' = fig0
                    /\ frames' = <<>>
                    /\ by' = by0
                    /\ kwargs' = [text |-> text]
                    /\ sliders' = new_sliders(by0)
                    /\ grouped' = groupby(df, by0)
                    /\ ii' = 0
                    /\ camera' = [zoom |-> zoom.value[1], center |-> center.value[1]]
                    /\ UNCHANGED result

\* animate(df, by, fig=None, text=...) called directly
Animate(text, by0) ==
    /\ pc = "idle"
    /\ call' = [op |-> "animate", args |-> [by |-> by0, text |-> text]]
    /\ animate_enter(gdf, by0, None, text)
    /\ UNCHANGED <<gdf, nfigures, sql_vars>>

(***************************************************************************)
(* plot_markers_with_mapbox(gdf, text, center, zoom, animate_by,           *)
(* return_fig=True).  text_col is bound only when text is truthy.          *)
(***************************************************************************)
PlotMarkers(text, center, zoom, animate_by) ==
    /\ pc = "idle"
    /\ call' = [op |-> "plot_markers_with_mapbox",
                args |-> [text |-> text, center |-> center, zoom |-> zoom,
                          animate_by |-> animate_by]]
    /\ UNCHANGED <<gdf, sql_vars>>
    /\ LET scene == plot_scene(gdf, text, center, zoom)
       IN
         IF scene.error # ""
         THEN /\ Finish(scene)
              /\ UNCHANGED <<fig, frames, sliders, grouped, ii, camera, by, kwargs, nfigures>>
         ELSE /\ nfigures' = 1
              /\ IF animate_by = None
                 THEN /\ Finish(scene)
                      /\ UNCHANGED <<fig, frames, sliders, grouped, ii, camera, by, kwargs>>
                 ELSE IF Len(text) = 0
                 THEN /\ Finish(Fail("UnboundLocalError"))
                      /\ UNCHANGED <<fig, frames, sliders, grouped, ii, camera, by, kwargs>>
                 ELSE animate_enter(gdf, animate_by[1], scene.value, text)

(***************************************************************************)
(* animate(), lines 141-154: one iteration of the group loop.              *)
(***************************************************************************)
AnimateStep ==
    /\ pc = "loop"
    /\ Len(grouped) > 0
    /\ LET key    == Head(grouped).key
           values == Head(grouped).values
           group_fig == iplot(drop(values, by), camera.zoom, camera.center, kwargs.text)
       IN
             IF group_fig.error # ""
             THEN /\ Finish(group_fig)
                  /\ UNCHANGED <<fig, frames, sliders, grouped, ii, nfigures>>
             ELSE /\ frames' = Append(frames, [data |-> group_fig.value[1].data,
                                               name |-> str_key(key)])
                  /\ sliders' = [sliders EXCEPT !.steps = Append(@, slider_step(key, ii))]
                  /\ fig' = IF ii = 0 /\ fig = None THEN group_fig.value ELSE fig
                  /\ grouped' = Tail(grouped)
                  /\ ii' = ii + 1
                  /\ nfigures' = nfigures + 1
                  /\ UNCHANGED <<pc, result>>
    /\ UNCHANGED <<gdf, call, camera, by, kwargs, sql_vars>>

(***************************************************************************)
(* animate(), lines 156-161: the frames and controls go on the figure.     *)
(* With no group at all and no fig passed in, fig is still None.           *)
(***************************************************************************)
AnimateReturn ==
    /\ pc = "loop"
    /\ Len(grouped) = 0
    /\ IF fig = None
       THEN Finish(Fail("TypeError"))
       ELSE Finish(Ok([data |-> fig[1].data,
                       layout |-> [mapbox |-> fig[1].layout.mapbox,
                                   sliders |-> <<sliders>>,
                                   updatemenus |-> play_pause_menus],
                       frames |-> frames]))
    /\ UNCHANGED <<call, plot_vars, sql_vars>>

\* gdf_to_plotly_layers(gdf, opacity=..., color=...) called directly
LayerBuilder ==
    /\ pc = "idle"
    /\ call' = [op |-> "gdf_to_plotly_layers", args |-> <<>>]
    /\ Finish(Ok(gdf_to_plotly_layers(gdf, "0.5", "darkblue")))
    /\ UNCHANGED <<plot_vars, sql_vars>>

Next ==
    \/ \E text \in Texts, center \in Centers, zoom \in Zooms, animate_by \in AnimateBys :
         PlotMarkers(text, center, zoom, animate_by)
    \/ \E text \in Texts : Animate(text, "year")
    \/ AnimateStep
    \/ AnimateReturn
    \/ LayerBuilder

Spec == Init /\ [][Next]_vars

(***************************************************************************)
(* write_postgis and _geom_type_to_postgis, on one frame and one table.    *)
(***************************************************************************)
Crss == {None, Some(4326)}

WriteFrames ==
    UNION {[crs : Crss, geometry : {g}, name : {[i \in 1..Len(g) |-> "a"]}] :
             g \in SeqsUpTo({shapely(t, 0) : t \in GeomTypes}, MaxLen)}

Tables == {None, Some([dtype |-> [geometry_type |-> "GEOMETRY", srid |-> NoSrid],
                       rows |-> <<>>])}
IfExists == {"fail", "replace", "append"}
Dtypes == {None, Some([geometry_type |-> "POINT", srid |-> 4326])}

WriteInit ==
    /\ Idle
    /\ gdf = GeoDataFrame(<<>>)
    /\ PlotIdle
    /\ SqlIdle
    /\ \E df \in WriteFrames :
         /\ heap = [o \in {CallerDf, TempDf} |-> IF o = CallerDf THEN df ELSE NoFrame]
         /\ df_before = df
    /\ table \in Tables
    /\ qresult = NoQuery

WritePostgis(if_exists, dtype) ==
    /\ pc = "idle"
    /\ call' = [op |-> "write_postgis", args |-> [if_exists |-> if_exists, dtype |-> dtype]]
    /\ LET w == write_postgis(heap, CallerDf, table, if_exists, dtype)
       IN  /\ heap' = w.heap
           /\ table' = w.table
           /\ Finish(w.outcome)
    /\ UNCHANGED <<plot_vars, df_before, qresult, decoded, srid_read>>

\* _geom_type_to_postgis(df.geometry) called on the caller's frame
GeomTypeToPostgis ==
    /\ pc = "idle"
    /\ call' = [op |-> "_geom_type_to_postgis", args |-> <<>>]
    /\ Finish(Ok(_geom_type_to_postgis(heap[CallerDf].geometry)))
    /\ UNCHANGED <<plot_vars, sql_vars>>

WriteNext ==
    \/ \E if_exists \in IfExists, dtype \in Dtypes : WritePostgis(if_exists, dtype)
    \/ GeomTypeToPostgis

WriteSpec == WriteInit /\ [][WriteNext]_vars

(***************************************************************************)
(* read_postgis on one query result.                                       *)
(***************************************************************************)
Srids == {0, 4326, 3857}
Ids == {0, 1}
QueryRows == [id : Ids, geom : {<<"EWKB", "Point", s>> : s \in Srids}]
QueryResults == [columns : {{"id", "geom"}, {"id"}}, rows : SeqsUpTo(QueryRows, MaxLen)]
IndexCols == {None, Some("id")}
CrsArgs == {None, Some(27700)}

ReadInit ==
    /\ Idle
    /\ gdf = GeoDataFrame(<<>>)
    /\ PlotIdle
    /\ SqlIdle
    /\ heap = [o \in {CallerDf, TempDf} |-> NoFrame]
    /\ df_before = NoFrame
    /\ table = None
    /\ qresult \in QueryResults

ReadPostgis(crs, index_col) ==
    /\ pc = "idle"
    /\ call' = [op |-> "read_postgis", args |-> [crs |-> crs, index_col |-> index_col]]
    /\ LET r == read_postgis(qresult, "geom", crs, index_col)
       IN  /\ decoded' = r.decoded
           /\ srid_read' = r.srid_read
           /\ Finish(r.outcome)
    /\ UNCHANGED <<plot_vars, heap, df_before, table, qresult>>

ReadNext == \E crs \in CrsArgs, index_col \in IndexCols : ReadPostgis(crs, index_col)

ReadSpec == ReadInit /\ [][ReadNext]_vars

(***************************************************************************)
(* Properties.                                                             *)
(***************************************************************************)
Done(op) == pc = "done" /\ call.op = op
Returned(op) == Done(op) /\ result.error = ""
Raised(op, e) == Done(op) /\ result.error = e

\* The call runs animate(): directly, or from plot_markers_with_mapbox.
Animated ==
    \/ call.op = "animate"
    \/ call.op = "plot_markers_with_mapbox" /\ call.args.animate_by # None

YearsOf(g) == {g.rows[i].year : i \in 1..Len(g.rows)} \ {NaN}

\* The key with exactly n smaller keys
NthSmallest(K, n) == CHOOSE k \in K : Cardinality({j \in K : j < k}) = n

FrameNamesAscending(fs) ==
    /\ Len(fs) <= Cardinality(YearsOf(gdf))
    /\ \A i \in 1..Len(fs) :
         fs[i].name = str_year(NthSmallest(YearsOf(gdf), i - 1), is_float(gdf, "year"))

FrameNamesFirstSeen(fs) ==
    /\ Len(fs) = Cardinality(YearsOf(gdf))
    /\ \A i \in 1..Len(fs) :
         \E p \in 1..Len(gdf.rows) :
            /\ gdf.rows[p].year # NaN
            /\ fs[i].name = str_year(gdf.rows[p].year, is_float(gdf, "year"))
            /\ Cardinality({gdf.rows[q].year : q \in 1..(p - 1)} \ {NaN}) = i - 1
            /\ \A q \in 1..(p - 1) : gdf.rows[q].year # gdf.rows[p].year

\* C1, as claimed: when animate() returns, there is one frame per distinct value of
\* the grouping attribute and the frames are in order of first occurrence of the keys.
C1_FramesInFirstSeenOrder ==
    (Returned("animate") /\ Len(gdf.rows) > 0) => FrameNamesFirstSeen(result.value[1].frames)

\* C1, amended: while animate() loops the frames built so far are those of the
\* smallest keys in ascending key order, and when it returns there is exactly one
\* frame per distinct non-missing value of the grouping attribute, in ascending order.
C1_FramesInAscendingKeyOrder ==
    /\ (pc = "loop" /\ Animated) => FrameNamesAscending(frames)
    /\ (pc = "done" /\ Animated /\ result.error = "" /\ Len(gdf.rows) > 0) =>
          /\ FrameNamesAscending(result.value[1].frames)
          /\ Len(result.value[1].frames) = Cardinality(YearsOf(gdf))

C1_Witness ==
    /\ Returned("animate")
    /\ Len(gdf.rows) = 2
    /\ gdf.rows[2].year # NaN
    /\ gdf.rows[1].year > gdf.rows[2].year
    /\ Len(result.value[1].frames) = 2

StepsMatchFrames(steps, fs) ==
    /\ Len(steps) = Len(fs)
    /\ \A i \in 1..Len(fs) :
         /\ steps[i].label = fs[i].name
         /\ steps[i].args[1] = <<fs[i].name>>
         /\ fs[i].name = str_year(NthSmallest(YearsOf(gdf), i - 1), is_float(gdf, "year"))

\* C2: at every iteration of animate()'s group loop and on return, the slider has as
\* many steps as there are frames, and the i-th step's label and animate target are
\* the i-th frame's name, the stringified key of the i-th group.
C2_SliderStepsMatchFrames ==
    /\ pc = "loop" => StepsMatchFrames(sliders.steps, frames)
    /\ (pc = "done" /\ Animated /\ result.error = "") =>
          /\ Len(result.value[1].layout.sliders) = 1
          /\ StepsMatchFrames(result.value[1].layout.sliders[1].steps,
                              result.value[1].frames)

C2_Witness ==
    /\ pc = "loop"
    /\ Len(frames) = 1
    /\ Len(sliders.steps) = 1
    /\ Len(grouped) = 1

\* max(1, 6.5 - ceil(span)/10) of an Extent <<minx, miny, maxx, maxy>>, in tenths
ZoomOfExtent(e) ==
    LET span == IF e[3] - e[1] > e[4] - e[2] THEN e[3] - e[1] ELSE e[4] - e[2]
        z    == 65 - (span + 1) \div 2
    IN  IF z < 10 THEN 10 ELSE z

\* C3: the automatic zoom of a non-empty feature set is max(1, 6.5 - ceil(span)/10)
\* with span the larger axis span of the set's Extent (its overall bounding box).
C3_ZoomIsOfExtent ==
    (Returned("plot_markers_with_mapbox") /\ call.args.zoom = None /\ Len(gdf.rows) > 0) =>
        result.value[1].layout.mapbox.zoom = ZoomOfExtent(total_bounds(gdf).value[1])

NonPoints(g) == {i \in 1..Len(g.rows) : g.rows[i].geometry.type # "Point"}

\* The layer is the single-feature collection of row i of the feature set
LayerIsOfRow(layer, i) ==
    /\ layer.source.type = "FeatureCollection"
    /\ Len(layer.source.features) = 1
    /\ layer.source.features[1].id = str(gdf.rows[i].index)
    /\ layer.source.features[1].geometry = gdf.rows[i].geometry

\* One layer per non-point row, in row order, none for a Point
LayersAreTheNonPoints(layers) ==
    /\ Len(layers) = Cardinality(NonPoints(gdf))
    /\ \A k \in 1..Len(layers) :
         \E i \in NonPoints(gdf) :
            /\ Cardinality({j \in NonPoints(gdf) : j < i}) = k - 1
            /\ LayerIsOfRow(layers[k], i)

\* C4, as claimed: gdf_to_plotly_layers emits no layer for a Point of the feature set
\* it is passed and exactly one single-feature layer per non-point feature, in order.
C4_NoLayerForAPoint ==
    Returned("gdf_to_plotly_layers") => LayersAreTheNonPoints(result.value[1])

\* C4, amended: gdf_to_plotly_layers emits exactly one single-feature layer per
\* feature it is passed, Points included, in feature order (none for an empty set);
\* it is plot_markers_with_mapbox that passes it the non-point features only, so a
\* scene's layers are exactly the non-point features.
C4_OneLayerPerFeaturePassed ==
    /\ Returned("gdf_to_plotly_layers") =>
          /\ Len(result.value[1]) = Len(gdf.rows)
          /\ \A i \in 1..Len(gdf.rows) : LayerIsOfRow(result.value[1][i], i)
    /\ Returned("plot_markers_with_mapbox") =>
          LayersAreTheNonPoints(result.value[1].layout.mapbox.layers)

C4_Witness ==
    /\ Returned("gdf_to_plotly_layers")
    /\ Len(gdf.rows) = 2
    /\ gdf.rows[1].geometry.type = "Point"
    /\ gdf.rows[2].geometry.type = "Polygon"
    /\ Len(result.value[1]) = 2

\* C5: the static scene of a non-empty feature set has exactly one centroid marker
\* per feature, in feature order, and exactly one layer per non-point feature.
C5_MarkerPerFeatureLayerPerShape ==
    (Done("plot_markers_with_mapbox") /\ call.args.animate_by = None /\ Len(gdf.rows) > 0) =>
        /\ result.error = ""
        /\ Len(result.value[1].data) = 1
        /\ LET trace == result.value[1].data[1]
           IN  /\ Len(trace.lon) = Len(gdf.rows)
               /\ Len(trace.lat) = Len(gdf.rows)
               /\ \A i \in 1..Len(gdf.rows) :
                    /\ trace.lon[i] = centroid(gdf.rows[i].geometry).x
                    /\ trace.lat[i] = centroid(gdf.rows[i].geometry).y
        /\ LayersAreTheNonPoints(result.value[1].layout.mapbox.layers)

C5_Witness ==
    /\ Returned("plot_markers_with_mapbox")
    /\ call.args.animate_by = None
    /\ Len(gdf.rows) = 2
    /\ gdf.rows[1].geometry.type = "Polygon"
    /\ gdf.rows[2].geometry.type = "Point"
    /\ Len(result.value[1].data[1].lon) = 2
    /\ Len(result.value[1].layout.mapbox.layers) = 1

\* C6, as claimed: on an empty feature set plot_markers_with_mapbox and animate fail
\* with the empty-input error, whatever the optional arguments, before any scene is
\* built.
C6_EmptyAlwaysFails ==
    ((Done("plot_markers_with_mapbox") \/ Done("animate")) /\ Len(gdf.rows) = 0) =>
        /\ result.error = "EmptyInputError"
        /\ nfigures = 0

\* C6, amended: on an empty feature set animate() fails with the empty-input error
\* before any scene is built, and so does plot_markers_with_mapbox whenever zoom is
\* omitted; with both center and zoom supplied (and no animate_by)
\* plot_markers_with_mapbox raises nothing and returns a scene with no marker and no
\* layer.
C6_EmptyFailsUnlessFramed ==
    /\ (Done("animate") /\ Len(gdf.rows) = 0) =>
          result.error = "EmptyInputError" /\ nfigures = 0
    /\ (Done("plot_markers_with_mapbox") /\ Len(gdf.rows) = 0 /\ call.args.zoom = None) =>
          result.error = "EmptyInputError" /\ nfigures = 0
    /\ (Done("plot_markers_with_mapbox") /\ Len(gdf.rows) = 0 /\ call.args.zoom # None
          /\ call.args.center # None /\ call.args.animate_by = None) =>
          /\ result.error = ""
          /\ Len(result.value[1].data[1].lon) = 0
          /\ Len(result.value[1].layout.mapbox.layers) = 0

C6_Witness ==
    /\ Returned("plot_markers_with_mapbox")
    /\ Len(gdf.rows) = 0
    /\ call.args.center # None
    /\ call.args.zoom # None
    /\ call.args.animate_by = None
    /\ Len(result.value[1].data[1].lon) = 0

SevenTypes == GeomTypes \ {"LinearRing"}

PostgisName(t) ==
    CASE t = "Polygon" -> "POLYGON" [] t = "MultiPolygon" -> "MULTIPOLYGON"
      [] t = "Point" -> "POINT" [] t = "LineString" -> "LINESTRING"
      [] t = "MultiPoint" -> "MULTIPOINT"
      [] t = "GeometryCollection" -> "GEOMETRYCOLLECTION"
      [] t = "MultiLineString" -> "MULTILINESTRING"

KindsOf(geometry) == {geometry[i].tag : i \in 1..Len(geometry)}

\* C7: on a non-empty feature set _geom_type_to_postgis returns the PostGIS name of
\* kind K exactly when every geometry is of the same one of the seven kinds K, and
\* 'GEOMETRY' otherwise; the result depends on the set of kinds only, not on order.
C7_ExactTypeIffHomogeneous ==
    (Done("_geom_type_to_postgis") /\ Len(heap[CallerDf].geometry) > 0) =>
        LET kinds == KindsOf(heap[CallerDf].geometry)
        IN  /\ result.error = ""
            /\ \A K \in SevenTypes : (result.value[1] = PostgisName(K)) <=> (kinds = {K})
            /\ (result.value[1] = "GEOMETRY") <=> (\A K \in SevenTypes : kinds # {K})

C7_Witness ==
    /\ Returned("_geom_type_to_postgis")
    /\ Len(heap[CallerDf].geometry) = 2
    /\ heap[CallerDf].geometry[1].tag = "Polygon"
    /\ heap[CallerDf].geometry[2].tag = "Point"
    /\ result.value[1] = "GEOMETRY"

\* C8: read_postgis fails with the missing-column error before decoding anything when
\* the geometry column is absent; uses a supplied crs unchanged and reads no SRID;
\* and otherwise takes the crs from the SRID of the FIRST decoded geometry: epsg:s for
\* a non-zero s, unset for 0 or for a result with no rows.
C8_CrsFromFirstGeometry ==
    Done("read_postgis") =>
        IF "geom" \notin qresult.columns
        THEN result.error = "MissingColumnError" /\ decoded = 0
        ELSE IF call.args.crs # None
        THEN result.error = "" /\ result.value[1].crs = call.args.crs /\ srid_read = <<>>
        ELSE IF Len(qresult.rows) = 0
        THEN result.error = "" /\ result.value[1].crs = None
        ELSE LET first == qresult.rows[1].geom[3]
             IN  /\ result.error = ""
                 /\ result.value[1].crs = IF first # 0 THEN Some(first) ELSE None

\* C9: write_postgis leaves the caller's feature set as it was, whether the write
\* succeeds or fails: its geometries are still the shapely objects, its attribute
\* values and crs unchanged; only the private copy holds the WKT elements.
C9_CallerFrameUnchanged ==
    /\ heap[CallerDf] = df_before
    /\ Done("write_postgis") =>
          /\ \A i \in 1..Len(heap[CallerDf].geometry) :
                heap[CallerDf].geometry[i].cls = "shapely"
          /\ Len(heap[TempDf].geometry) = Len(df_before.geometry)
          /\ \A i \in 1..Len(heap[TempDf].geometry) :
                heap[TempDf].geometry[i].cls = "WKTElement"

C9_Witness ==
    /\ Raised("write_postgis", "TableExistsError")
    /\ call.args.if_exists = "fail"
    /\ Len(df_before.geometry) = 2
    /\ heap[TempDf].geometry[1].cls = "WKTElement"
    /\ heap[CallerDf].geometry[1].cls = "shapely"

\* C10: with animate_by set and text omitted, plot_markers_with_mapbox on a non-empty
\* feature set reaches animate() and returns a figure with one frame per group.
C10_AnimateWithoutText ==
    (Done("plot_markers_with_mapbox") /\ call.args.animate_by # None
        /\ Len(call.args.text) = 0 /\ Len(gdf.rows) > 0) =>
        /\ result.error = ""
        /\ Len(result.value[1].frames) = Cardinality(YearsOf(gdf))

====
